---- MODULE Spec2Model ----
(***************************************************************************)
(* Vehicle-rental backend (express handlers over three Azure tables).      *)
(* The three tables are the state; every route handler is cut at its       *)
(* awaited store calls, one action per store call together with the        *)
(* synchronous code that follows it up to the next await.                  *)
(*                                                                         *)
(* Fields that are stored and returned but never read by a handler (ano,   *)
(* urlImagem, precoDiaria, dataInicio, dataFim, valor, nome, email,        *)
(* telefone) are left out of the records.  Row keys made by                *)
(* Date.now().toString() are kept as the clock value itself: toString is   *)
(* injective on the clock values and the keys are only compared for        *)
(* equality.                                                               *)
(***************************************************************************)
EXTENDS Integers, FiniteSets, Sequences, TLC

\* ---------------------------------------------------------------- bounds
MaxClock == 2        \* Date.now() takes the values 1..MaxClock
MaxReqs == 2         \* request slots (requests in flight at once)
MaxPedidos == 4      \* requests started in one interleaved run

\* ---------------------------------------------------------------- inputs
Placas == {"ABC123", "ZZZ999"}
\* the <<marca, modelo>> pairs a registration is sent with
Catalogo == {<<"Toyota", "Corolla">>, <<"Honda", "Civic">>}
Marcas == {c[1] : c \in Catalogo}
Modelos == {c[2] : c \in Catalogo}
Reqs == 1..MaxReqs
Relogio == 1..MaxClock
\* req.body.disponivel as the multipart/JSON body can carry it
DisponivelInputs == {"str:true", "bool:true", "str:false", "ausente"}
\* "" stands for an absent (falsy) placaVeiculo, 0 for an absent clienteId
PlacaInputs == Placas \cup {""}
ClienteInputs == Relogio \cup {0}
\* "" stands for an omitted query parameter
MarcaInputs == Marcas \cup {""}
ModeloInputs == Modelos \cup {""}

\* veiculos, clientes, locacoes: the three tables (row key -> entity)
\* agora: the value Date.now() returns
\* pc, loc, resp: per request, the await it stands at, its locals, its answer
\*   (resp.corpo: the rows of the available-vehicle listing, resp.lista: the
\*   array of GET /veiculos/alugados)
\* pre: the tables as the sequential client's current request found them
\* iniciados: requests started so far in an interleaved run
VARIABLES veiculos, clientes, locacoes, agora, pc, loc, resp, pre, iniciados

vars == <<veiculos, clientes, locacoes, agora, pc, loc, resp, pre, iniciados>>
tabelas == <<veiculos, clientes, locacoes>>

\* ---------------------------------------------------------------- records
SemVeiculo == [existe |-> FALSE, marca |-> "", modelo |-> "", disponivel |-> FALSE]
SemLocacao == [existe |-> FALSE, placaVeiculo |-> "", marca |-> "", modelo |-> "",
               clienteId |-> 0, status |-> ""]
SemLocais == [op |-> "", placa |-> "", cliente |-> 0, id |-> 0,
              veiculo |-> SemVeiculo, rowKey |-> 0, fila |-> <<>>, itens |-> <<>>,
              erro |-> ""]
SemResposta == [status |-> 0, sucesso |-> FALSE, corpo |-> {}, lista |-> <<>>]
TabelasVazias == [veiculos |-> [p \in Placas |-> SemVeiculo],
                  clientes |-> {},
                  locacoes |-> [k \in Relogio |-> SemLocacao]]

Resposta(status, sucesso) ==
    [status |-> status, sucesso |-> sucesso, corpo |-> {}, lista |-> <<>>]

\* disponivel === 'true' || disponivel === true
ParseDisponivel(d) == d = "str:true" \/ d = "bool:true"

\* veiculo?.marca || '---'
Placeholder(v, campo) == IF v.existe /\ campo # "" THEN campo ELSE "---"

\* the scan with the break taken after the first row, whatever it holds
TemLocacoesAtivas_SoPrimeira(locs, id) ==
    locs[1].existe /\ locs[1].clienteId = id /\ locs[1].status = "ativa"

\* the scan without the status test
TemLocacoesAtivas_SemStatus(locs, id) ==
    \E k \in Relogio : locs[k].existe /\ locs[k].clienteId = id

\* locacao.clienteId === id && locacao.status === "ativa", over the whole scan
TemLocacoesAtivas(locs, id) ==
    \E k \in Relogio : locs[k].existe /\ locs[k].clienteId = id /\ locs[k].status = "ativa"

\* the listing without the modelo test
Disponiveis_SemModelo(vs, marca, modelo) ==
    { [placa |-> p, marca |-> vs[p].marca, modelo |-> vs[p].modelo,
       disponivel |-> vs[p].disponivel] :
      p \in { q \in Placas : /\ vs[q].existe
                             /\ vs[q].disponivel = TRUE
                             /\ (marca = "" \/ vs[q].marca = marca) } }

\* the listing without the store filter `disponivel eq true`
Disponiveis_SemFiltro(vs, marca, modelo) ==
    { [placa |-> p, marca |-> vs[p].marca, modelo |-> vs[p].modelo,
       disponivel |-> vs[p].disponivel] :
      p \in { q \in Placas : /\ vs[q].existe
                             /\ (marca = "" \/ vs[q].marca = marca)
                             /\ (modelo = "" \/ vs[q].modelo = modelo) } }

\* the rows GET /veiculos/disponiveis pushes: store filter `disponivel eq true`,
\* then (!marca || v.marca === marca) && (!modelo || v.modelo === modelo)
Disponiveis(vs, marca, modelo) ==
    { [placa |-> p, marca |-> vs[p].marca, modelo |-> vs[p].modelo,
       disponivel |-> vs[p].disponivel] :
      p \in { q \in Placas : /\ vs[q].existe
                             /\ vs[q].disponivel = TRUE
                             /\ (marca = "" \/ vs[q].marca = marca)
                             /\ (modelo = "" \/ vs[q].modelo = modelo) } }

\* ---------------------------------------------------------------- requests
\* A request arrives.  Express starts handlers whenever requests arrive; the
\* sequential client (seq) sends one request at a time and waits for the answer.
\* pre keeps the tables as the sequential client's request found them.
Inicio(r, seq) ==
    /\ pc[r] = "idle"
    /\ IF seq
       THEN /\ r = 1
            /\ \A q \in Reqs : pc[q] = "idle"
            /\ pre' = [veiculos |-> veiculos, clientes |-> clientes, locacoes |-> locacoes]
            /\ iniciados' = iniciados
       ELSE /\ iniciados < MaxPedidos
            /\ iniciados' = iniciados + 1
            /\ pre' = pre

Responde(r, resposta) ==
    /\ pc' = [pc EXCEPT ![r] = "done"]
    /\ resp' = [resp EXCEPT ![r] = resposta]

Segue(r, passo) ==
    /\ pc' = [pc EXCEPT ![r] = passo]
    /\ resp' = resp

\* POST /veiculos: createEntity with rowKey placa (409 when the plate exists)
PostVeiculos(r, seq) ==
    \E placa \in Placas, c \in Catalogo, d \in DisponivelInputs :
        /\ Inicio(r, seq)
        /\ loc' = [loc EXCEPT ![r] = [SemLocais EXCEPT !.op = "veiculos", !.placa = placa]]
        /\ IF veiculos[placa].existe
           THEN /\ veiculos' = veiculos
                /\ Responde(r, Resposta(500, FALSE))
           ELSE /\ veiculos' = [veiculos EXCEPT ![placa] =
                        [existe |-> TRUE, marca |-> c[1], modelo |-> c[2],
                         disponivel |-> ParseDisponivel(d)]]
                /\ Responde(r, Resposta(200, TRUE))
        /\ UNCHANGED <<clientes, locacoes, agora>>

\* POST /clientes: createEntity with rowKey Date.now().toString()
PostClientes(r, seq) ==
    /\ Inicio(r, seq)
    /\ loc' = [loc EXCEPT ![r] = [SemLocais EXCEPT !.op = "clientes", !.cliente = agora]]
    /\ IF agora \in clientes
       THEN /\ clientes' = clientes
            /\ Responde(r, Resposta(500, FALSE))
       ELSE /\ clientes' = clientes \cup {agora}
            /\ Responde(r, Resposta(200, TRUE))
    /\ UNCHANGED <<veiculos, locacoes, agora>>

\* GET /veiculos/disponiveis?marca&modelo
GetDisponiveis(r, seq) ==
    \E marca \in MarcaInputs, modelo \in ModeloInputs :
        /\ Inicio(r, seq)
        /\ loc' = [loc EXCEPT ![r] = [SemLocais EXCEPT !.op = "disponiveis",
                       !.veiculo = [SemVeiculo EXCEPT !.marca = marca, !.modelo = modelo]]]
        /\ Responde(r, [status |-> 200, sucesso |-> TRUE,
                        corpo |-> Disponiveis(veiculos, marca, modelo), lista |-> <<>>])
        /\ UNCHANGED <<veiculos, clientes, locacoes, agora>>

\* DELETE /clientes/:id, first await: getEntity("Cliente", id)
DelGetEntity(r, seq) ==
    \E id \in Relogio :
        /\ Inicio(r, seq)
        /\ loc' = [loc EXCEPT ![r] = [SemLocais EXCEPT !.op = "excluir", !.cliente = id]]
        /\ IF id \in clientes
           THEN Segue(r, "delScan")
           ELSE Responde(r, Resposta(404, FALSE))
        /\ UNCHANGED <<veiculos, clientes, locacoes, agora>>

\* DELETE /clientes/:id: the scan of the rental table and the test that follows
DelScan(r) ==
    /\ pc[r] = "delScan"
    /\ IF TemLocacoesAtivas(locacoes, loc[r].cliente)
       THEN Responde(r, Resposta(400, FALSE))
       ELSE Segue(r, "delDelete")
    /\ UNCHANGED <<veiculos, clientes, locacoes, agora, loc, pre, iniciados>>

\* DELETE /clientes/:id: deleteEntity("Cliente", id) (404 when it is gone)
DelDeleteEntity(r) ==
    /\ pc[r] = "delDelete"
    /\ IF loc[r].cliente \in clientes
       THEN /\ clientes' = clientes \ {loc[r].cliente}
            /\ Responde(r, Resposta(200, TRUE))
       ELSE /\ clientes' = clientes
            /\ Responde(r, Resposta(404, FALSE))
    /\ UNCHANGED <<veiculos, locacoes, agora, loc, pre, iniciados>>

\* the validation testing placaVeiculo alone
LocBuscaVeiculo_SoPlaca(r, seq) ==
    \E placa \in PlacaInputs, cliente \in ClienteInputs :
        /\ Inicio(r, seq)
        /\ IF placa = ""
           THEN /\ loc' = [loc EXCEPT ![r] = [SemLocais EXCEPT !.op = "locacoes",
                               !.placa = placa, !.cliente = cliente]]
                /\ Responde(r, Resposta(400, FALSE))
           ELSE /\ loc' = [loc EXCEPT ![r] = [SemLocais EXCEPT !.op = "locacoes",
                               !.placa = placa, !.cliente = cliente,
                               !.veiculo = veiculos[placa], !.rowKey = agora]]
                /\ Segue(r, "locCreate")
        /\ UNCHANGED <<veiculos, clientes, locacoes, agora>>

\* the creation refusing a vehicle whose disponivel is false
LocBuscaVeiculo_ExigeDisponivel(r, seq) ==
    \E placa \in PlacaInputs, cliente \in ClienteInputs :
        /\ Inicio(r, seq)
        /\ IF placa = "" \/ cliente = 0
              \/ (veiculos[placa].existe /\ ~veiculos[placa].disponivel)
           THEN /\ loc' = [loc EXCEPT ![r] = [SemLocais EXCEPT !.op = "locacoes",
                               !.placa = placa, !.cliente = cliente]]
                /\ Responde(r, Resposta(400, FALSE))
           ELSE /\ loc' = [loc EXCEPT ![r] = [SemLocais EXCEPT !.op = "locacoes",
                               !.placa = placa, !.cliente = cliente,
                               !.veiculo = veiculos[placa], !.rowKey = agora]]
                /\ Segue(r, "locCreate")
        /\ UNCHANGED <<veiculos, clientes, locacoes, agora>>

\* POST /locacoes: validation, getEntity('Veiculo', placaVeiculo) with its
\* swallowed failure, and the construction of entidade (rowKey from Date.now())
LocBuscaVeiculo(r, seq) ==
    \E placa \in PlacaInputs, cliente \in ClienteInputs :
        /\ Inicio(r, seq)
        /\ IF placa = "" \/ cliente = 0
           THEN /\ loc' = [loc EXCEPT ![r] = [SemLocais EXCEPT !.op = "locacoes",
                               !.placa = placa, !.cliente = cliente]]
                /\ Responde(r, Resposta(400, FALSE))
           ELSE /\ loc' = [loc EXCEPT ![r] = [SemLocais EXCEPT !.op = "locacoes",
                               !.placa = placa, !.cliente = cliente,
                               !.veiculo = veiculos[placa], !.rowKey = agora]]
                /\ Segue(r, "locCreate")
        /\ UNCHANGED <<veiculos, clientes, locacoes, agora>>

\* the rental written with upsertEntity: an existing key is overwritten
LocCreateEntity_Upsert(r) ==
    /\ pc[r] = "locCreate"
    /\ locacoes' = [locacoes EXCEPT ![loc[r].rowKey] =
            [existe |-> TRUE,
             placaVeiculo |-> loc[r].placa,
             marca |-> Placeholder(loc[r].veiculo, loc[r].veiculo.marca),
             modelo |-> Placeholder(loc[r].veiculo, loc[r].veiculo.modelo),
             clienteId |-> loc[r].cliente,
             status |-> "ativa"]]
    /\ IF loc[r].veiculo.existe
       THEN Segue(r, "locUpdate")
       ELSE Responde(r, Resposta(200, TRUE))
    /\ UNCHANGED <<veiculos, clientes, agora, loc, pre, iniciados>>

\* POST /locacoes: tabelaLocacoes.createEntity(entidade) (409 when the key exists)
LocCreateEntity(r) ==
    /\ pc[r] = "locCreate"
    /\ IF locacoes[loc[r].rowKey].existe
       THEN /\ locacoes' = locacoes
            /\ Responde(r, Resposta(500, FALSE))
       ELSE /\ locacoes' = [locacoes EXCEPT ![loc[r].rowKey] =
                    [existe |-> TRUE,
                     placaVeiculo |-> loc[r].placa,
                     marca |-> Placeholder(loc[r].veiculo, loc[r].veiculo.marca),
                     modelo |-> Placeholder(loc[r].veiculo, loc[r].veiculo.modelo),
                     clienteId |-> loc[r].cliente,
                     status |-> "ativa"]]
            /\ IF loc[r].veiculo.existe
               THEN Segue(r, "locUpdate")
               ELSE Responde(r, Resposta(200, TRUE))
    /\ UNCHANGED <<veiculos, clientes, agora, loc, pre, iniciados>>

\* the answer sent without the vehicle update
LocUpdateVeiculo_SemMerge(r) ==
    /\ pc[r] = "locUpdate"
    /\ veiculos' = veiculos
    /\ Responde(r, Resposta(200, TRUE))
    /\ UNCHANGED <<clientes, locacoes, agora, loc, pre, iniciados>>

\* the update sent with the ETag of the vehicle that was read: refused (412)
\* when the row has changed since
LocUpdateVeiculo_ETag(r) ==
    /\ pc[r] = "locUpdate"
    /\ IF veiculos[loc[r].placa] = loc[r].veiculo
       THEN /\ veiculos' = [veiculos EXCEPT ![loc[r].placa].disponivel = FALSE]
            /\ Responde(r, Resposta(200, TRUE))
       ELSE /\ veiculos' = veiculos
            /\ Responde(r, Resposta(500, FALSE))
    /\ UNCHANGED <<clientes, locacoes, agora, loc, pre, iniciados>>

\* POST /locacoes: updateEntity({..., disponivel: false}, "Merge") and the answer
LocUpdateVeiculo(r) ==
    /\ pc[r] = "locUpdate"
    /\ IF veiculos[loc[r].placa].existe
       THEN /\ veiculos' = [veiculos EXCEPT ![loc[r].placa].disponivel = FALSE]
            /\ Responde(r, Resposta(200, TRUE))
       ELSE /\ veiculos' = veiculos
            /\ Responde(r, Resposta(500, FALSE))
    /\ UNCHANGED <<clientes, locacoes, agora, loc, pre, iniciados>>

\* the cancellation refusing a rental that is not active
CancGetEntity_SoAtiva(r, seq) ==
    \E id \in Relogio :
        /\ Inicio(r, seq)
        /\ IF locacoes[id].existe /\ locacoes[id].status = "ativa"
           THEN /\ loc' = [loc EXCEPT ![r] = [SemLocais EXCEPT !.op = "cancelar", !.id = id,
                               !.placa = locacoes[id].placaVeiculo]]
                /\ Segue(r, "cancUpdate")
           ELSE /\ loc' = [loc EXCEPT ![r] = [SemLocais EXCEPT !.op = "cancelar", !.id = id]]
                /\ Responde(r, Resposta(500, FALSE))
        /\ UNCHANGED <<veiculos, clientes, locacoes, agora>>

\* the cancellation answering success for a rental that is not stored
CancGetEntity_Ignora404(r, seq) ==
    \E id \in Relogio :
        /\ Inicio(r, seq)
        /\ IF locacoes[id].existe
           THEN /\ loc' = [loc EXCEPT ![r] = [SemLocais EXCEPT !.op = "cancelar", !.id = id,
                               !.placa = locacoes[id].placaVeiculo]]
                /\ Segue(r, "cancUpdate")
           ELSE /\ loc' = [loc EXCEPT ![r] = [SemLocais EXCEPT !.op = "cancelar", !.id = id]]
                /\ Responde(r, Resposta(200, TRUE))
        /\ UNCHANGED <<veiculos, clientes, locacoes, agora>>

\* POST /cancelar-locacao: getEntity("Locacao", locacaoId) (404 becomes a 500)
CancGetEntity(r, seq) ==
    \E id \in Relogio :
        /\ Inicio(r, seq)
        /\ IF locacoes[id].existe
           THEN /\ loc' = [loc EXCEPT ![r] = [SemLocais EXCEPT !.op = "cancelar", !.id = id,
                               !.placa = locacoes[id].placaVeiculo]]
                /\ Segue(r, "cancUpdate")
           ELSE /\ loc' = [loc EXCEPT ![r] = [SemLocais EXCEPT !.op = "cancelar", !.id = id]]
                /\ Responde(r, Resposta(500, FALSE))
        /\ UNCHANGED <<veiculos, clientes, locacoes, agora>>

\* POST /cancelar-locacao: updateEntity({..., status: "cancelada"}, "Merge")
CancUpdateEntity(r) ==
    /\ pc[r] = "cancUpdate"
    /\ IF locacoes[loc[r].id].existe
       THEN /\ locacoes' = [locacoes EXCEPT ![loc[r].id].status = "cancelada"]
            /\ IF loc[r].placa # ""
               THEN Segue(r, "cancGetVeiculo")
               ELSE Responde(r, Resposta(200, TRUE))
       ELSE /\ locacoes' = locacoes
            /\ Responde(r, Resposta(500, FALSE))
    /\ UNCHANGED <<veiculos, clientes, agora, loc, pre, iniciados>>

\* POST /cancelar-locacao: getEntity('Veiculo', locacao.placaVeiculo) inside the
\* inner try; a missing vehicle is logged and the request answers success
CancGetVeiculo(r) ==
    /\ pc[r] = "cancGetVeiculo"
    /\ IF veiculos[loc[r].placa].existe
       THEN Segue(r, "cancUpdateVeiculo")
       ELSE Responde(r, Resposta(200, TRUE))
    /\ UNCHANGED <<veiculos, clientes, locacoes, agora, loc, pre, iniciados>>

\* the answer sent without the vehicle update
CancUpdateVeiculo_SemMerge(r) ==
    /\ pc[r] = "cancUpdateVeiculo"
    /\ veiculos' = veiculos
    /\ Responde(r, Resposta(200, TRUE))
    /\ UNCHANGED <<clientes, locacoes, agora, loc, pre, iniciados>>

\* POST /cancelar-locacao: updateEntity({..., disponivel: true}, "Merge") and the answer
CancUpdateVeiculo(r) ==
    /\ pc[r] = "cancUpdateVeiculo"
    /\ veiculos' = IF veiculos[loc[r].placa].existe
                   THEN [veiculos EXCEPT ![loc[r].placa].disponivel = TRUE]
                   ELSE veiculos
    /\ Responde(r, Resposta(200, TRUE))
    /\ UNCHANGED <<clientes, locacoes, agora, loc, pre, iniciados>>

\* the row keys GET /veiculos/alugados keeps from its scan, in row-key order:
\* for await (const l of listEntities()) { if (l.status === "ativa") ... }
RECURSIVE LocacoesAtivas(_, _)
LocacoesAtivas(locs, k) ==
    IF k > MaxClock
    THEN <<>>
    ELSE (IF locs[k].existe /\ locs[k].status = "ativa" THEN <<k>> ELSE <<>>)
         \o LocacoesAtivas(locs, k + 1)

\* veiculo ? {marca, modelo, ..., placa: veiculo.rowKey} : null
VeiculoOuNull(v, placa) ==
    IF v.existe
    THEN [nulo |-> FALSE, placa |-> placa, marca |-> v.marca, modelo |-> v.modelo]
    ELSE [nulo |-> TRUE, placa |-> "", marca |-> "", modelo |-> ""]

\* cliente ? {..., id: cliente.rowKey} : null
ClienteOuNull(achado, id) ==
    IF achado THEN [nulo |-> FALSE, id |-> id] ELSE [nulo |-> TRUE, id |-> 0]

\* GET /veiculos/alugados: the scan of the rental table (the rows of one page)
AlugScan(r, seq) ==
    /\ Inicio(r, seq)
    /\ loc' = [loc EXCEPT ![r] = [SemLocais EXCEPT !.op = "alugados",
                   !.fila = LocacoesAtivas(locacoes, 1)]]
    /\ IF LocacoesAtivas(locacoes, 1) = <<>>
       THEN Responde(r, [Resposta(200, TRUE) EXCEPT !.lista = <<>>])
       ELSE Segue(r, "alugVeiculo")
    /\ UNCHANGED <<veiculos, clientes, locacoes, agora>>

\* GET /veiculos/alugados: getEntity('Veiculo', l.placaVeiculo), null when it throws
AlugGetVeiculo(r) ==
    /\ pc[r] = "alugVeiculo"
    /\ loc' = [loc EXCEPT ![r].veiculo = veiculos[locacoes[Head(loc[r].fila)].placaVeiculo]]
    /\ Segue(r, "alugCliente")
    /\ UNCHANGED <<veiculos, clientes, locacoes, agora, pre, iniciados>>

\* the join view leaving out a rental whose client is not stored
AlugGetCliente_SoComCliente(r) ==
    /\ pc[r] = "alugCliente"
    /\ LET l == locacoes[Head(loc[r].fila)]
           item == [id |-> Head(loc[r].fila),
                    status |-> "ativa",
                    veiculo |-> VeiculoOuNull(loc[r].veiculo, l.placaVeiculo),
                    cliente |-> ClienteOuNull(l.clienteId \in clientes, l.clienteId)]
           itens == IF l.clienteId \in clientes
                    THEN Append(loc[r].itens, item) ELSE loc[r].itens
       IN /\ loc' = [loc EXCEPT ![r].itens = itens, ![r].fila = Tail(loc[r].fila),
                                ![r].veiculo = SemVeiculo]
          /\ IF Tail(loc[r].fila) = <<>>
             THEN Responde(r, [Resposta(200, TRUE) EXCEPT !.lista = itens])
             ELSE Segue(r, "alugVeiculo")
    /\ UNCHANGED <<veiculos, clientes, locacoes, agora, pre, iniciados>>

\* GET /veiculos/alugados: getEntity('Cliente', l.clienteId), null when it throws,
\* the push of the joined record, and the answer after the last row
AlugGetCliente(r) ==
    /\ pc[r] = "alugCliente"
    /\ LET l == locacoes[Head(loc[r].fila)]
           item == [id |-> Head(loc[r].fila),
                    status |-> "ativa",
                    veiculo |-> VeiculoOuNull(loc[r].veiculo, l.placaVeiculo),
                    cliente |-> ClienteOuNull(l.clienteId \in clientes, l.clienteId)]
           itens == Append(loc[r].itens, item)
       IN /\ loc' = [loc EXCEPT ![r].itens = itens, ![r].fila = Tail(loc[r].fila),
                                ![r].veiculo = SemVeiculo]
          /\ IF Tail(loc[r].fila) = <<>>
             THEN Responde(r, [Resposta(200, TRUE) EXCEPT !.lista = itens])
             ELSE Segue(r, "alugVeiculo")
    /\ UNCHANGED <<veiculos, clientes, locacoes, agora, pre, iniciados>>

\* ------------------------------------------------- store calls that are refused
\* A refused call (throttling, timeout before the write, lost credentials)
\* throws in the handler and changes no row; loc.erro names the call that threw.

\* POST /locacoes: getEntity('Veiculo', ...) throws; the inner catch logs it and
\* veiculo stays null
LocBuscaVeiculoFalha(r, seq) ==
    \E placa \in Placas, cliente \in Relogio :
        /\ Inicio(r, seq)
        /\ loc' = [loc EXCEPT ![r] = [SemLocais EXCEPT !.op = "locacoes",
                       !.placa = placa, !.cliente = cliente,
                       !.rowKey = agora, !.erro = "getVeiculo"]]
        /\ Segue(r, "locCreate")
        /\ UNCHANGED <<veiculos, clientes, locacoes, agora>>

\* POST /locacoes: createEntity throws; the outer catch answers 500
LocCreateEntityFalha(r) ==
    /\ pc[r] = "locCreate"
    /\ loc' = [loc EXCEPT ![r].erro = "createEntity"]
    /\ Responde(r, Resposta(500, FALSE))
    /\ UNCHANGED <<veiculos, clientes, locacoes, agora, pre, iniciados>>

\* a handler that deletes the rental it wrote when the vehicle update throws
LocUpdateVeiculoFalha_Compensa(r) ==
    /\ pc[r] = "locUpdate"
    /\ loc' = [loc EXCEPT ![r].erro = "updateVeiculo"]
    /\ locacoes' = [locacoes EXCEPT ![loc[r].rowKey] = SemLocacao]
    /\ Responde(r, Resposta(500, FALSE))
    /\ UNCHANGED <<veiculos, clientes, agora, pre, iniciados>>

\* POST /locacoes: updateEntity on the vehicle throws; the outer catch answers
\* 500 and nothing is done about the rental already written
LocUpdateVeiculoFalha(r) ==
    /\ pc[r] = "locUpdate"
    /\ loc' = [loc EXCEPT ![r].erro = "updateVeiculo"]
    /\ locacoes' = locacoes
    /\ Responde(r, Resposta(500, FALSE))
    /\ UNCHANGED <<veiculos, clientes, agora, pre, iniciados>>

\* POST /cancelar-locacao: getEntity("Locacao", ...) throws; outer catch, 500
CancGetEntityFalha(r, seq) ==
    \E id \in Relogio :
        /\ Inicio(r, seq)
        /\ loc' = [loc EXCEPT ![r] = [SemLocais EXCEPT !.op = "cancelar", !.id = id,
                       !.erro = "getEntity"]]
        /\ Responde(r, Resposta(500, FALSE))
        /\ UNCHANGED <<veiculos, clientes, locacoes, agora>>

\* POST /cancelar-locacao: the status updateEntity throws; outer catch, 500
CancUpdateEntityFalha(r) ==
    /\ pc[r] = "cancUpdate"
    /\ loc' = [loc EXCEPT ![r].erro = "updateEntity"]
    /\ Responde(r, Resposta(500, FALSE))
    /\ UNCHANGED <<veiculos, clientes, locacoes, agora, pre, iniciados>>

\* POST /cancelar-locacao: getEntity('Veiculo', ...) throws something other than
\* "not found"; the inner catch logs it and the request answers success
CancGetVeiculoFalha(r) ==
    /\ pc[r] = "cancGetVeiculo"
    /\ loc' = [loc EXCEPT ![r].erro = "getVeiculo"]
    /\ Responde(r, Resposta(200, TRUE))
    /\ UNCHANGED <<veiculos, clientes, locacoes, agora, pre, iniciados>>

\* an inner catch that rethrows what is not a 404: the outer catch answers 500
CancUpdateVeiculoFalha_Propaga(r) ==
    /\ pc[r] = "cancUpdateVeiculo"
    /\ loc' = [loc EXCEPT ![r].erro = "updateVeiculo"]
    /\ Responde(r, Resposta(500, FALSE))
    /\ UNCHANGED <<veiculos, clientes, locacoes, agora, pre, iniciados>>

\* POST /cancelar-locacao: updateEntity on the vehicle throws; the inner catch
\* logs it and the request answers success
CancUpdateVeiculoFalha(r) ==
    /\ pc[r] = "cancUpdateVeiculo"
    /\ loc' = [loc EXCEPT ![r].erro = "updateVeiculo"]
    /\ Responde(r, Resposta(200, TRUE))
    /\ UNCHANGED <<veiculos, clientes, locacoes, agora, pre, iniciados>>

\* the answer has been delivered: the slot is free for the next request
Retorna(r) ==
    /\ pc[r] = "done"
    /\ pc' = [pc EXCEPT ![r] = "idle"]
    /\ loc' = [loc EXCEPT ![r] = SemLocais]
    /\ resp' = [resp EXCEPT ![r] = SemResposta]
    /\ pre' = TabelasVazias
    /\ UNCHANGED <<veiculos, clientes, locacoes, agora, iniciados>>

\* Date.now() moves on
Tick ==
    /\ agora < MaxClock
    /\ agora' = agora + 1
    /\ UNCHANGED <<veiculos, clientes, locacoes, pc, loc, resp, pre, iniciados>>

\* ---------------------------------------------------------------- specifications
Init ==
    /\ veiculos = [p \in Placas |-> SemVeiculo]
    /\ clientes = {}
    /\ locacoes = [k \in Relogio |-> SemLocacao]
    /\ agora = 1
    /\ pc = [r \in Reqs |-> "idle"]
    /\ loc = [r \in Reqs |-> SemLocais]
    /\ resp = [r \in Reqs |-> SemResposta]
    /\ pre = TabelasVazias
    /\ iniciados = 0

Passo(r) ==
    \/ DelScan(r)
    \/ DelDeleteEntity(r)
    \/ LocCreateEntity(r)
    \/ LocUpdateVeiculo(r)
    \/ CancUpdateEntity(r)
    \/ CancGetVeiculo(r)
    \/ CancUpdateVeiculo(r)
    \/ AlugGetVeiculo(r)
    \/ AlugGetCliente(r)
    \/ Retorna(r)

Chegada(r, seq) ==
    \/ PostVeiculos(r, seq)
    \/ PostClientes(r, seq)
    \/ GetDisponiveis(r, seq)
    \/ DelGetEntity(r, seq)
    \/ LocBuscaVeiculo(r, seq)
    \/ CancGetEntity(r, seq)
    \/ AlugScan(r, seq)

\* requests sent one at a time, each answered before the next is sent
NextSeq == Tick \/ \E r \in Reqs : Chegada(r, TRUE) \/ Passo(r)

\* requests overlapping at their awaits
Next == Tick \/ \E r \in Reqs : Chegada(r, FALSE) \/ Passo(r)

\* a refused store call in a rental creation or cancellation
Falha(r) ==
    \/ LocBuscaVeiculoFalha(r, TRUE)
    \/ LocCreateEntityFalha(r)
    \/ LocUpdateVeiculoFalha(r)
    \/ CancGetEntityFalha(r, TRUE)
    \/ CancUpdateEntityFalha(r)
    \/ CancGetVeiculoFalha(r)
    \/ CancUpdateVeiculoFalha(r)

\* requests sent one at a time against a store that may refuse a call
NextFalha == NextSeq \/ \E r \in Reqs : Falha(r)

SpecSeq == Init /\ [][NextSeq]_vars

SpecFalha == Init /\ [][NextFalha]_vars

Spec == Init /\ [][Next]_vars

\* ---------------------------------------------------------------- properties
Quiescente == \A r \in Reqs : pc[r] = "idle"

Ativa(locs, k) == locs[k].existe /\ locs[k].status = "ativa"

\* request r has been answered; op names its route
Respondido(r, op) == pc[r] = "done" /\ loc[r].op = op

\* C1 (first half, for a vehicle registered before every rental that references
\* it): between requests, a vehicle referenced by an active rental has
\* disponivel = false.
C1_LocacaoAtivaImplicaIndisponivel ==
    Quiescente =>
        \A p \in Placas :
            ( /\ veiculos[p].existe
              /\ \A j \in Relogio :
                    (locacoes[j].existe /\ locacoes[j].placaVeiculo = p)
                    => locacoes[j].marca # "---"
              /\ \E k \in Relogio : Ativa(locacoes, k) /\ locacoes[k].placaVeiculo = p )
            => veiculos[p].disponivel = FALSE

\* C2: when POST /locacoes found the vehicle and answers sucesso:true, the
\* vehicle's disponivel is false at the answer.
C2_LocacaoCriadaVeiculoIndisponivel ==
    \A r \in Reqs :
        (Respondido(r, "locacoes") /\ resp[r].sucesso /\ loc[r].veiculo.existe)
        => /\ veiculos[loc[r].placa].existe
           /\ veiculos[loc[r].placa].disponivel = FALSE

C2_Witness ==
    \E r \in Reqs :
        /\ Respondido(r, "locacoes") /\ resp[r].sucesso /\ loc[r].veiculo.existe
        /\ pre.veiculos[loc[r].placa].disponivel = TRUE
        /\ veiculos[loc[r].placa].disponivel = FALSE

\* C3: when POST /cancelar-locacao answers success, the rental's status is
\* 'cancelada' and its vehicle, if there is one, has disponivel = true.
C3_CanceladaVeiculoDisponivel ==
    \A r \in Reqs :
        (Respondido(r, "cancelar") /\ resp[r].sucesso)
        => /\ locacoes[loc[r].id].existe
           /\ locacoes[loc[r].id].status = "cancelada"
           /\ locacoes[loc[r].id].placaVeiculo \in Placas
           /\ veiculos[locacoes[loc[r].id].placaVeiculo].existe
                => veiculos[locacoes[loc[r].id].placaVeiculo].disponivel = TRUE

C3_Witness ==
    \E r \in Reqs :
        /\ Respondido(r, "cancelar") /\ resp[r].sucesso
        /\ Ativa(pre.locacoes, loc[r].id)
        /\ pre.veiculos[loc[r].placa].existe
        /\ pre.veiculos[loc[r].placa].disponivel = FALSE
        /\ locacoes[loc[r].id].status = "cancelada"
        /\ veiculos[loc[r].placa].disponivel = TRUE

\* C4: DELETE /clientes/C for an existing client C with an active rental answers
\* 400 with sucesso:false, and C and all three tables are as they were.
C4_ExcluirComLocacaoAtivaConflito ==
    \A r \in Reqs :
        ( /\ Respondido(r, "excluir")
          /\ loc[r].cliente \in pre.clientes
          /\ \E k \in Relogio : Ativa(pre.locacoes, k)
                                /\ pre.locacoes[k].clienteId = loc[r].cliente )
        => /\ resp[r].status = 400
           /\ resp[r].sucesso = FALSE
           /\ loc[r].cliente \in clientes
           /\ clientes = pre.clientes
           /\ veiculos = pre.veiculos
           /\ locacoes = pre.locacoes

\* the client's only active rental sits behind another row of the scan
C4_Witness ==
    \E r \in Reqs :
        /\ Respondido(r, "excluir")
        /\ loc[r].cliente \in pre.clientes
        /\ pre.locacoes[1].existe
        /\ ~(Ativa(pre.locacoes, 1) /\ pre.locacoes[1].clienteId = loc[r].cliente)
        /\ Ativa(pre.locacoes, 2) /\ pre.locacoes[2].clienteId = loc[r].cliente
        /\ resp[r].status = 400

\* C5: DELETE /clientes/C for an existing client C with no active rental answers
\* success, C is gone (a lookup reports not found), and nothing else changed.
C5_ExcluirSemLocacaoAtivaRemove ==
    \A r \in Reqs :
        ( /\ Respondido(r, "excluir")
          /\ loc[r].cliente \in pre.clientes
          /\ ~\E k \in Relogio : Ativa(pre.locacoes, k)
                                 /\ pre.locacoes[k].clienteId = loc[r].cliente )
        => /\ resp[r].status = 200
           /\ resp[r].sucesso = TRUE
           /\ loc[r].cliente \notin clientes
           /\ clientes = pre.clientes \ {loc[r].cliente}
           /\ veiculos = pre.veiculos
           /\ locacoes = pre.locacoes

\* a client whose rental is cancelled is deleted, another client stays
C5_Witness ==
    \E r \in Reqs :
        /\ Respondido(r, "excluir")
        /\ loc[r].cliente \in pre.clientes
        /\ \E k \in Relogio : /\ pre.locacoes[k].existe
                              /\ pre.locacoes[k].clienteId = loc[r].cliente
                              /\ pre.locacoes[k].status = "cancelada"
        /\ resp[r].sucesso
        /\ loc[r].cliente \notin clientes
        /\ clientes # {}

\* C6: no step removes a Client record while an active rental with that
\* clienteId is in the rental table.
C6_ClienteNuncaRemovidoComLocacaoAtiva ==
    [][ \A c \in Relogio :
            (c \in clientes /\ c \notin clientes')
            => ~\E k \in Relogio : Ativa(locacoes, k) /\ locacoes[k].clienteId = c ]_vars

\* C7: a stored rental is never removed, and its status only ever goes from
\* 'ativa' to 'cancelada'.
C7_StatusSoAtivaParaCancelada ==
    [][ \A k \in Relogio :
            locacoes[k].existe
            => /\ locacoes'[k].existe
               /\ locacoes[k].status = "cancelada" => locacoes'[k].status = "cancelada"
               /\ locacoes'[k].status \in {locacoes[k].status, "cancelada"} ]_vars

\* a key whose rental is cancelled is offered to createEntity again
C7_Witness ==
    \E r \in Reqs :
        /\ pc[r] = "locCreate"
        /\ locacoes[loc[r].rowKey].existe
        /\ locacoes[loc[r].rowKey].status = "cancelada"

\* C8: cancelling a rental that is already cancelled answers success, leaves it
\* 'cancelada' and changes nothing but the vehicle's disponivel, set to true;
\* on the state a cancellation leaves, a second cancellation changes nothing.
C8_CancelarCanceladaIdempotente ==
    \A r \in Reqs :
        ( /\ Respondido(r, "cancelar")
          /\ pre.locacoes[loc[r].id].existe
          /\ pre.locacoes[loc[r].id].status = "cancelada" )
        => /\ resp[r].status = 200
           /\ resp[r].sucesso = TRUE
           /\ locacoes = pre.locacoes
           /\ clientes = pre.clientes
           /\ \A p \in Placas :
                 veiculos[p] = IF p = pre.locacoes[loc[r].id].placaVeiculo /\ pre.veiculos[p].existe
                               THEN [pre.veiculos[p] EXCEPT !.disponivel = TRUE]
                               ELSE pre.veiculos[p]
           /\ (\A p \in Placas :
                 (p = pre.locacoes[loc[r].id].placaVeiculo /\ pre.veiculos[p].existe)
                 => pre.veiculos[p].disponivel = TRUE)
              => veiculos = pre.veiculos

\* both cases: the vehicle re-marked available, and the second cancel in a row
C8_Witness ==
    \E r \in Reqs :
        /\ Respondido(r, "cancelar")
        /\ pre.locacoes[loc[r].id].existe
        /\ pre.locacoes[loc[r].id].status = "cancelada"
        /\ pre.veiculos[loc[r].placa].existe
        /\ pre.veiculos[loc[r].placa].disponivel = FALSE
        /\ veiculos[loc[r].placa].disponivel = TRUE

\* C9: the listing answers exactly the vehicles with disponivel = true whose
\* marca equals the marca given and whose modelo equals the modelo given.
C9_ListagemExata ==
    \A r \in Reqs :
        Respondido(r, "disponiveis")
        => /\ resp[r].status = 200
           /\ {v.placa : v \in resp[r].corpo} =
                 { p \in Placas :
                     /\ pre.veiculos[p].existe
                     /\ pre.veiculos[p].disponivel
                     /\ loc[r].veiculo.marca # "" => pre.veiculos[p].marca = loc[r].veiculo.marca
                     /\ loc[r].veiculo.modelo # "" => pre.veiculos[p].modelo = loc[r].veiculo.modelo }
           /\ \A v \in resp[r].corpo :
                 /\ v.disponivel = TRUE
                 /\ v.marca = pre.veiculos[v.placa].marca
                 /\ v.modelo = pre.veiculos[v.placa].modelo
           /\ Cardinality(resp[r].corpo) = Cardinality({v.placa : v \in resp[r].corpo})

\* two available vehicles, the marca given matches one and the modelo the other
C9_Witness ==
    \E r \in Reqs :
        /\ Respondido(r, "disponiveis")
        /\ \A p \in Placas : pre.veiculos[p].existe /\ pre.veiculos[p].disponivel
        /\ \E p, q \in Placas :
              /\ pre.veiculos[p].marca = loc[r].veiculo.marca
              /\ pre.veiculos[q].modelo = loc[r].veiculo.modelo
              /\ pre.veiculos[p].modelo # loc[r].veiculo.modelo
        /\ resp[r].corpo = {}

PlacasListadas(vs, marca, modelo) == {v.placa : v \in Disponiveis(vs, marca, modelo)}

\* C10: run one request at a time, a successful rental creation for a vehicle
\* registered available leaves its plate out of the available-vehicle listing,
\* and cancelling a rental puts its vehicle's plate back into the listing.
C10_ListagemSegueLocacao ==
    \A r \in Reqs :
        /\ ( /\ Respondido(r, "locacoes") /\ resp[r].sucesso
             /\ pre.veiculos[loc[r].placa].existe
             /\ pre.veiculos[loc[r].placa].disponivel = TRUE )
           => \A marca \in MarcaInputs, modelo \in ModeloInputs :
                 loc[r].placa \notin PlacasListadas(veiculos, marca, modelo)
        /\ ( /\ Respondido(r, "cancelar") /\ resp[r].sucesso
             /\ pre.veiculos[loc[r].placa].existe )
           => loc[r].placa \in PlacasListadas(veiculos, "", "")

\* the cancellation of the active rental of a vehicle the listing left out
C10_Witness ==
    \E r \in Reqs :
        /\ Respondido(r, "cancelar") /\ resp[r].sucesso
        /\ Ativa(pre.locacoes, loc[r].id)
        /\ pre.locacoes[loc[r].id].marca # "---"
        /\ loc[r].placa \notin PlacasListadas(pre.veiculos, "", "")
        /\ loc[r].placa \in PlacasListadas(veiculos, "", "")

\* the entity POST /locacoes stores for request r
Entidade(r) ==
    [existe |-> TRUE,
     placaVeiculo |-> loc[r].placa,
     marca |-> IF loc[r].veiculo.existe THEN loc[r].veiculo.marca ELSE "---",
     modelo |-> IF loc[r].veiculo.existe THEN loc[r].veiculo.modelo ELSE "---",
     clienteId |-> loc[r].cliente,
     status |-> "ativa"]

\* C11: a rental creation whose placaVeiculo matches no vehicle succeeds and
\* stores an active rental with marca and modelo '---'.
C11_PlacaInexistenteSucesso ==
    \A r \in Reqs :
        ( /\ Respondido(r, "locacoes")
          /\ loc[r].placa # "" /\ loc[r].cliente # 0
          /\ ~loc[r].veiculo.existe )
        => /\ resp[r].sucesso
           /\ locacoes[loc[r].rowKey].existe
           /\ locacoes[loc[r].rowKey].marca = "---"
           /\ locacoes[loc[r].rowKey].modelo = "---"

\* C12: POST /locacoes without placaVeiculo or without clienteId answers 400
\* with nothing read and nothing written.
C12_CamposAusentesRejeitados ==
    \A r \in Reqs :
        ( /\ Respondido(r, "locacoes")
          /\ (loc[r].placa = "" \/ loc[r].cliente = 0) )
        => /\ resp[r].status = 400
           /\ resp[r].sucesso = FALSE
           /\ loc[r].veiculo = SemVeiculo
           /\ loc[r].rowKey = 0
           /\ locacoes = pre.locacoes
           /\ veiculos = pre.veiculos
           /\ clientes = pre.clientes

\* clienteId absent, for the plate of a registered, available vehicle
C12_Witness ==
    \E r \in Reqs :
        /\ Respondido(r, "locacoes")
        /\ loc[r].placa \in Placas /\ loc[r].cliente = 0
        /\ pre.veiculos[loc[r].placa].existe
        /\ veiculos[loc[r].placa].disponivel = TRUE
        /\ resp[r].status = 400

\* C16: POST /cancelar-locacao for an id no rental has answers 500 and leaves
\* the three tables as they were.
C16_CancelarInexistenteErro ==
    \A r \in Reqs :
        (Respondido(r, "cancelar") /\ ~pre.locacoes[loc[r].id].existe)
        => /\ resp[r].status = 500
           /\ resp[r].sucesso = FALSE
           /\ locacoes = pre.locacoes
           /\ veiculos = pre.veiculos
           /\ clientes = pre.clientes

\* another rental is stored, for a rented vehicle, and stays as it is
C16_Witness ==
    \E r \in Reqs :
        /\ Respondido(r, "cancelar")
        /\ ~pre.locacoes[loc[r].id].existe
        /\ \E k \in Relogio : Ativa(locacoes, k) /\ locacoes[k].placaVeiculo \in Placas
                              /\ veiculos[locacoes[k].placaVeiculo].existe
        /\ resp[r].status = 500

\* C17: the createEntity step of a creation either stores exactly one rental
\* under a key no stored rental has, all other rentals unchanged, and goes on to
\* success, or finds the key taken, writes nothing and answers an error; no
\* other step adds a rental.
C17_IdentificadorNovo ==
    [][ /\ \A r \in Reqs :
              (pc[r] = "locCreate" /\ pc'[r] # "locCreate")
              => IF locacoes[loc[r].rowKey].existe
                 THEN /\ locacoes' = locacoes
                      /\ pc'[r] = "done"
                      /\ resp'[r].sucesso = FALSE
                 ELSE /\ locacoes' = [locacoes EXCEPT ![loc[r].rowKey] = Entidade(r)]
                      /\ (pc'[r] = "done" => resp'[r].sucesso)
        /\ \A r \in Reqs :
              (pc[r] = "locUpdate" /\ pc'[r] = "done" /\ resp'[r].sucesso)
              => locacoes' = locacoes
        /\ \A k \in Relogio :
              (~locacoes[k].existe /\ locacoes'[k].existe)
              => \E r \in Reqs : pc[r] = "locCreate" /\ pc'[r] # "locCreate"
                                 /\ loc[r].rowKey = k ]_vars

\* two creations with the same Date.now(): one answered success, one refused
C17_Witness ==
    \E r, q \in Reqs :
        /\ r # q
        /\ Respondido(r, "locacoes") /\ Respondido(q, "locacoes")
        /\ loc[r].rowKey = loc[q].rowKey /\ loc[r].rowKey # 0
        /\ resp[r].sucesso
        /\ resp[q].status = 500
        /\ locacoes[loc[r].rowKey] = Entidade(r)

\* C18: a creation for an existing vehicle has the same outcome whatever the
\* vehicle's disponivel: it is refused only when its key is taken, and otherwise
\* stores a further active rental for the plate.
C18_CriacaoIgnoraDisponivel ==
    \A r \in Reqs :
        ( /\ Respondido(r, "locacoes")
          /\ loc[r].placa # "" /\ loc[r].cliente # 0
          /\ pre.veiculos[loc[r].placa].existe )
        => /\ loc[r].rowKey \in Relogio
           /\ resp[r].sucesso <=> ~pre.locacoes[loc[r].rowKey].existe
           /\ resp[r].sucesso =>
                 /\ locacoes = [pre.locacoes EXCEPT ![loc[r].rowKey] = Entidade(r)]
                 /\ veiculos = [pre.veiculos EXCEPT ![loc[r].placa].disponivel = FALSE]

\* the vehicle was unavailable, with an active rental, and gets a second one
C18_Witness ==
    \E r \in Reqs :
        /\ Respondido(r, "locacoes") /\ resp[r].sucesso
        /\ pre.veiculos[loc[r].placa].existe
        /\ pre.veiculos[loc[r].placa].disponivel = FALSE
        /\ \E k \in Relogio : Ativa(pre.locacoes, k) /\ pre.locacoes[k].placaVeiculo = loc[r].placa
        /\ Cardinality({k \in Relogio : Ativa(locacoes, k)
                                        /\ locacoes[k].placaVeiculo = loc[r].placa}) = 2

\* C13: GET /veiculos/alugados answers one entry per active rental, none for a
\* cancelled one, with veiculo / cliente null exactly when the vehicle / client
\* record is not stored.
C13_AlugadosUmaPorAtiva ==
    \A r \in Reqs :
        Respondido(r, "alugados")
        => LET L == resp[r].lista
               ativas == {k \in Relogio : pre.locacoes[k].existe
                                          /\ pre.locacoes[k].status = "ativa"}
           IN /\ resp[r].status = 200
              /\ {L[i].id : i \in 1..Len(L)} = ativas
              /\ Len(L) = Cardinality(ativas)
              /\ \A i \in 1..Len(L) :
                    LET l == pre.locacoes[L[i].id]
                    IN /\ L[i].status = "ativa"
                       /\ L[i].veiculo.nulo <=> ~pre.veiculos[l.placaVeiculo].existe
                       /\ ~L[i].veiculo.nulo =>
                             /\ L[i].veiculo.placa = l.placaVeiculo
                             /\ L[i].veiculo.marca = pre.veiculos[l.placaVeiculo].marca
                       /\ L[i].cliente.nulo <=> l.clienteId \notin pre.clientes
                       /\ ~L[i].cliente.nulo => L[i].cliente.id = l.clienteId

\* a cancelled rental left out, an active one returned with both sub-objects null
C13_Witness ==
    \E r \in Reqs :
        /\ Respondido(r, "alugados")
        /\ \E k \in Relogio : pre.locacoes[k].existe /\ pre.locacoes[k].status = "cancelada"
        /\ Len(resp[r].lista) = 1
        /\ resp[r].lista[1].veiculo.nulo
        /\ resp[r].lista[1].cliente.nulo

\* C15: two concurrent rental creations for the same existing, available vehicle
\* both read it, both store an active rental and both answer success: no step
\* of a creation looks at the flag it read, at the flag now stored or at the
\* other rentals of the plate, so a creation whose key is free stores its
\* rental, and its vehicle update always answers success.
C15_CriacoesConcorrentesAmbasSucesso ==
    [][\A r \in Reqs :
          /\ (pc[r] = "locCreate" /\ pc'[r] # "locCreate"
                /\ ~locacoes[loc[r].rowKey].existe)
             => /\ locacoes'[loc[r].rowKey] = Entidade(r)
                /\ pc'[r] = "locUpdate" \/ resp'[r].sucesso
          /\ (pc[r] = "locUpdate" /\ pc'[r] = "done")
             => /\ resp'[r].sucesso
                /\ ~veiculos'[loc[r].placa].disponivel
                /\ locacoes' = locacoes]_vars

\* both requests answered success after reading the vehicle as available, and
\* their two rentals of the same plate are active
C15_Witness ==
    \E r1, r2 \in Reqs :
        /\ r1 # r2
        /\ Respondido(r1, "locacoes") /\ Respondido(r2, "locacoes")
        /\ resp[r1].sucesso /\ resp[r2].sucesso
        /\ loc[r1].placa = loc[r2].placa
        /\ loc[r1].veiculo.existe /\ loc[r1].veiculo.disponivel
        /\ loc[r2].veiculo.existe /\ loc[r2].veiculo.disponivel
        /\ loc[r1].rowKey # loc[r2].rowKey
        /\ Ativa(locacoes, loc[r1].rowKey) /\ Ativa(locacoes, loc[r2].rowKey)
        /\ locacoes[loc[r1].rowKey].placaVeiculo = loc[r1].placa
        /\ locacoes[loc[r2].rowKey].placaVeiculo = loc[r1].placa

\* C14: within one rental creation the rental is written before the vehicle's
\* flag is touched; when the vehicle update is refused the request is answered
\* 500, the new active rental stays stored, the vehicle keeps the flag it had,
\* and nothing undoes the rental write.
C14_LocacaoAntesDoVeiculoSemCompensacao ==
    \A r \in Reqs :
        /\ pc[r] = "locUpdate"
           => /\ locacoes[loc[r].rowKey] = Entidade(r)
              /\ veiculos = pre.veiculos
        /\ (Respondido(r, "locacoes") /\ loc[r].erro = "updateVeiculo")
           => /\ resp[r].status = 500
              /\ ~pre.locacoes[loc[r].rowKey].existe
              /\ locacoes[loc[r].rowKey] = Entidade(r)
              /\ veiculos = pre.veiculos

\* the update of an available vehicle was refused: 500, yet the rental is active
C14_Witness ==
    \E r \in Reqs :
        /\ Respondido(r, "locacoes")
        /\ loc[r].erro = "updateVeiculo"
        /\ resp[r].status = 500
        /\ veiculos[loc[r].placa].existe /\ veiculos[loc[r].placa].disponivel
        /\ Ativa(locacoes, loc[r].rowKey)
        /\ locacoes[loc[r].rowKey].placaVeiculo = loc[r].placa

\* C19: once the status write of a cancellation has succeeded the request
\* answers success whatever the vehicle step does: a refused vehicle lookup or
\* vehicle update is swallowed, the rental is cancelled and no vehicle changes.
C19_CancelamentoEngoleFalhaDoVeiculo ==
    \A r \in Reqs :
        /\ (Respondido(r, "cancelar") /\ loc[r].erro \notin {"getEntity", "updateEntity"}
              /\ pre.locacoes[loc[r].id].existe)
           => /\ resp[r].status = 200 /\ resp[r].sucesso
              /\ locacoes[loc[r].id].status = "cancelada"
        /\ (Respondido(r, "cancelar") /\ loc[r].erro \in {"getVeiculo", "updateVeiculo"})
           => /\ resp[r].status = 200 /\ resp[r].sucesso
              /\ locacoes[loc[r].id].status = "cancelada"
              /\ veiculos = pre.veiculos

\* the vehicle update of a cancellation was refused: success, the rental is
\* cancelled and the stored vehicle is still flagged as rented
C19_Witness ==
    \E r \in Reqs :
        /\ Respondido(r, "cancelar")
        /\ loc[r].erro = "updateVeiculo"
        /\ resp[r].sucesso
        /\ pre.locacoes[loc[r].id].status = "ativa"
        /\ locacoes[loc[r].id].status = "cancelada"
        /\ veiculos[loc[r].placa].existe /\ ~veiculos[loc[r].placa].disponivel

====
